---- MODULE Spec2Model ----
(***************************************************************************)
(* A model of the Snake game engine of src/src/snake.c: the bit-packed     *)
(* board (get_cell / set_cell), get_next_cell, gen_food, init_board,       *)
(* move_snake and the round protocol of game_loop.                         *)
(*                                                                         *)
(* The board of the program is 48 x 48 cells; the model keeps every        *)
(* formula of the source and scales only BOARD_WIDTH and BOARD_HEIGHT.     *)
(***************************************************************************)
EXTENDS Integers, Sequences, FiniteSets

(* ------------------------------------------------------------------ *)
(* Bounds of the model                                                 *)
(* ------------------------------------------------------------------ *)

\* snake.c:24-25 define both as 48; the model scales the board down.
BOARD_WIDTH == 3
BOARD_HEIGHT == 2

\* Largest direction value handed to move_snake by SpecAnyDir (values
\* above SNAKE_DOWN are not directions; game_loop never passes them).
MaxDirection == 5

\* SpecStorage calls set_cell on every board with at most MaxStored cells
\* that are not CELL_EMPTY, with rows up to BOARD_HEIGHT + MaxOutside - 1
\* and columns up to BOARD_WIDTH + MaxOutside - 1.
MaxStored == 1
MaxOutside == 1

(* ------------------------------------------------------------------ *)
(* Constants of the program                                            *)
(* ------------------------------------------------------------------ *)

OCC_FLAG == 4
SNAKE_LEFT == 0
SNAKE_RIGHT == 1
SNAKE_UP == 2
SNAKE_DOWN == 3

BITS_PER_CELL == 3
\* sizeof(cell_pack_t): cell_pack_t is unsigned int, 4 bytes.
SIZEOF_CELL_PACK == 4
PACK_BITS == SIZEOF_CELL_PACK * 8
CELLS_PER_PACK == PACK_BITS \div BITS_PER_CELL
PACKS_PER_ROW == (BOARD_WIDTH \div CELLS_PER_PACK) + 1

CELL_EMPTY == 0
CELL_HAS_FOOD == 1

GAME_CONT == 0
GAME_LOSE == 1

\* The value of `direction` while no key has been handled in the round
\* (the local of game_loop is not yet assigned).
NO_DIRECTION == -1

(* ------------------------------------------------------------------ *)
(* Bit arithmetic                                                      *)
(* ------------------------------------------------------------------ *)

\* a & b and a | b on non-negative int values (cell states, directions)
RECURSIVE IntAnd(_, _)
IntAnd(a, b) ==
  IF a = 0 \/ b = 0 THEN 0
  ELSE (IF a % 2 = 1 /\ b % 2 = 1 THEN 1 ELSE 0) + 2 * IntAnd(a \div 2, b \div 2)

RECURSIVE IntOr(_, _)
IntOr(a, b) ==
  IF a = 0 THEN b
  ELSE IF b = 0 THEN a
  ELSE (IF a % 2 = 1 \/ b % 2 = 1 THEN 1 ELSE 0) + 2 * IntOr(a \div 2, b \div 2)

\* A cell_pack_t is an unsigned word of PACK_BITS bits, kept bit by bit
\* (bit 0 is the least significant).
BitPositions == 0 .. (PACK_BITS - 1)

ZeroWord == [i \in BitPositions |-> 0]

\* bit i of a non-negative int
RECURSIVE IntBit(_, _)
IntBit(n, i) == IF n = 0 THEN 0 ELSE IF i = 0 THEN n % 2 ELSE IntBit(n \div 2, i - 1)

\* the word holding a non-negative int (a cell_state_t converted to cell_pack_t)
ToWord(n) == [i \in BitPositions |-> IntBit(n, i)]

\* the value of bits i .. n - 1 of a word, bit i counting 1
RECURSIVE LowBitsFrom(_, _, _)
LowBitsFrom(w, i, n) ==
  IF i >= n THEN 0 ELSE w[i] + 2 * LowBitsFrom(w, i + 1, n)

\* w & ~(~0 << n) as an int: the mask keeps the n low bits of w
MaskLowBits(w, n) == LowBitsFrom(w, 0, n)

BitAnd(x, y) == [i \in BitPositions |-> IF x[i] = 1 /\ y[i] = 1 THEN 1 ELSE 0]

BitOr(x, y) == [i \in BitPositions |-> IF x[i] = 1 \/ y[i] = 1 THEN 1 ELSE 0]

BitNot(x) == [i \in BitPositions |-> 1 - x[i]]

ShiftLeft(x, n) == [i \in BitPositions |-> IF i >= n THEN x[i - n] ELSE 0]

ShiftRight(x, n) == [i \in BitPositions |-> IF i + n < PACK_BITS THEN x[i + n] ELSE 0]

PACK_INDEX(i) == i \div CELLS_PER_PACK

\* the offset counted in cells and not in bits: neighbouring cells overlap (mutant)
CELL_OFFSET_InCells(i) == i % CELLS_PER_PACK

CELL_OFFSET(i) == (i % CELLS_PER_PACK) * BITS_PER_CELL
\* ~(~0 << BITS_PER_CELL)
CELL_MASK == BitNot(ShiftLeft(BitNot(ZeroWord), BITS_PER_CELL))

IS_OCCUPIED(state) == IntAnd(state, OCC_FLAG) # 0

(* ------------------------------------------------------------------ *)
(* Cells and the board                                                 *)
(* ------------------------------------------------------------------ *)

Rows == 0 .. (BOARD_HEIGHT - 1)
Columns == 0 .. (BOARD_WIDTH - 1)
Packs == 0 .. (PACKS_PER_ROW - 1)

Cell(r, c) == [row |-> r, column |-> c]
Cells == {Cell(r, c) : r \in Rows, c \in Columns}

Directions == {SNAKE_LEFT, SNAKE_RIGHT, SNAKE_UP, SNAKE_DOWN}

\* static storage is zero-initialised
ZeroBoard == [r \in Rows |-> [p \in Packs |-> ZeroWord]]

cells_eq(cell1, cell2) == cell1.row = cell2.row /\ cell1.column = cell2.column

\* (board[row][PACK_INDEX(column)] >> CELL_OFFSET(column)) & CELL_MASK, where
\* CELL_MASK is ~(~0 << BITS_PER_CELL)
get_cell(b, row, column) ==
  MaskLowBits(ShiftRight(b[row][PACK_INDEX(column)], CELL_OFFSET(column)), BITS_PER_CELL)

\* set_cell with the mask left unshifted: ~CELL_MASK instead of ~(CELL_MASK << offset)
set_cell_UnshiftedMask(b, row, column, state) ==
  IF row < BOARD_HEIGHT /\ column < BOARD_WIDTH
  THEN LET offset == CELL_OFFSET(column)
           pack == b[row][PACK_INDEX(column)]
           mask == BitNot(CELL_MASK)
       IN  [b EXCEPT ![row][PACK_INDEX(column)] =
              BitOr(BitAnd(pack, mask), ShiftLeft(ToWord(state), offset))]
  ELSE b

\* set_cell with the column tested by <= instead of < (mutant)
set_cell_ColumnOffByOne(b, row, column, state) ==
  IF row < BOARD_HEIGHT /\ column <= BOARD_WIDTH
  THEN LET offset == CELL_OFFSET(column)
           pack == b[row][PACK_INDEX(column)]
           mask == BitNot(ShiftLeft(CELL_MASK, offset))
       IN  [b EXCEPT ![row][PACK_INDEX(column)] =
              BitOr(BitAnd(pack, mask), ShiftLeft(ToWord(state), offset))]
  ELSE b

set_cell(b, row, column, state) ==
  IF row < BOARD_HEIGHT /\ column < BOARD_WIDTH
  THEN LET offset == CELL_OFFSET(column)
           pack == b[row][PACK_INDEX(column)]
           mask == BitNot(ShiftLeft(CELL_MASK, offset))
       IN  [b EXCEPT ![row][PACK_INDEX(column)] =
              BitOr(BitAnd(pack, mask), ShiftLeft(ToWord(state), offset))]
  ELSE b

\* the indices of the cell address an element of board[][]: get_cell and
\* set_cell on any other cell index outside the array
InStorage(cell) ==
  /\ cell.row \in Rows
  /\ cell.column >= 0
  /\ PACK_INDEX(cell.column) \in Packs

\* get_next_cell: the cell after the update and the value returned
get_next_cell(cell, direction) ==
  CASE direction = SNAKE_LEFT  -> [cell |-> Cell(cell.row, cell.column - 1), valid |-> TRUE]
    [] direction = SNAKE_RIGHT -> [cell |-> Cell(cell.row, cell.column + 1), valid |-> TRUE]
    [] direction = SNAKE_UP    -> [cell |-> Cell(cell.row - 1, cell.column), valid |-> TRUE]
    [] direction = SNAKE_DOWN  -> [cell |-> Cell(cell.row + 1, cell.column), valid |-> TRUE]
    [] OTHER                   -> [cell |-> cell, valid |-> FALSE]

\* init_board's two loops: set_cell(i, j, CELL_EMPTY) for every cell, k = i * BOARD_WIDTH + j
RECURSIVE ClearFrom(_, _)
ClearFrom(b, k) ==
  IF k >= BOARD_HEIGHT * BOARD_WIDTH THEN b
  ELSE ClearFrom(set_cell(b, k \div BOARD_WIDTH, k % BOARD_WIDTH, CELL_EMPTY), k + 1)

\* init_board's loops ending one cell early: the last cell is not cleared (mutant)
init_board_SkipsLastCell(b) ==
  LET RECURSIVE Clear(_, _)
      Clear(bb, k) ==
        IF k >= BOARD_HEIGHT * BOARD_WIDTH - 1 THEN bb
        ELSE Clear(set_cell(bb, k \div BOARD_WIDTH, k % BOARD_WIDTH, CELL_EMPTY), k + 1)
  IN  Clear(b, 0)

\* init_board that leaves the cells of the last round as they are
init_board_NoClear(b) == b

\* the board init_board leaves
init_board(b) == ClearFrom(b, 0)

\* the cell init_board puts head and tail on
StartCell == Cell(BOARD_HEIGHT \div 2, BOARD_WIDTH \div 2)

\* gen_food that only keeps off the snake: a cell holding food passes
FoodCellFree_NotOccupied(b, cell) == ~IS_OCCUPIED(get_cell(b, cell.row, cell.column))

\* gen_food that only keeps off the food: a cell of the snake passes (mutant)
FoodCellFree_NotFood(b, cell) == get_cell(b, cell.row, cell.column) # CELL_HAS_FOOD

\* gen_food's loop going on while the sampled cell is CELL_EMPTY (mutant)
FoodCellFree_Inverted(b, cell) == get_cell(b, cell.row, cell.column) # CELL_EMPTY

\* gen_food's loop condition is the negation of this
FoodCellFree(b, cell) == get_cell(b, cell.row, cell.column) = CELL_EMPTY

\* the lose condition with the right border tested by > instead of >=
HitsBorderOrSnake_OffByOne(b, head, tail) ==
  \/ head.row < 0
  \/ head.row >= BOARD_HEIGHT
  \/ head.column < 0
  \/ head.column > BOARD_WIDTH
  \/ (~cells_eq(head, tail) /\ IS_OCCUPIED(get_cell(b, head.row, head.column)))

\* the lose condition without the test of the right border (mutant)
HitsBorderOrSnake_NoRightBorder(b, head, tail) ==
  \/ head.row < 0
  \/ head.row >= BOARD_HEIGHT
  \/ head.column < 0
  \/ (~cells_eq(head, tail) /\ IS_OCCUPIED(get_cell(b, head.row, head.column)))

\* the lose condition without the exemption of the tail cell
HitsBorderOrSnake_NoTailExemption(b, head, tail) ==
  \/ head.row < 0
  \/ head.row >= BOARD_HEIGHT
  \/ head.column < 0
  \/ head.column >= BOARD_WIDTH
  \/ IS_OCCUPIED(get_cell(b, head.row, head.column))

\* the condition of move_snake's GAME_LOSE branch, on the updated head
HitsBorderOrSnake(b, head, tail) ==
  \/ head.row < 0
  \/ head.row >= BOARD_HEIGHT
  \/ head.column < 0
  \/ head.column >= BOARD_WIDTH
  \/ (~cells_eq(head, tail) /\ IS_OCCUPIED(get_cell(b, head.row, head.column)))

\* the food test comparing with the wrong state
HoldsFood_TestsEmpty(b, cell) == get_cell(b, cell.row, cell.column) = CELL_EMPTY

\* move_snake's test of the new head cell for food
HoldsFood(b, cell) == get_cell(b, cell.row, cell.column) = CELL_HAS_FOOD

\* the state move_snake writes into a head cell
HeadState(direction) == IntOr(OCC_FLAG, direction)

\* the stored state of the tail cell taken whole as its direction, the mask
\* of the two direction bits forgotten (mutant)
TailDirection_Unmasked(b, tail) == get_cell(b, tail.row, tail.column)

\* the direction move_snake reads from the tail cell
TailDirection(b, tail) == IntAnd(get_cell(b, tail.row, tail.column), 3)

\* the tail moved on without its old cell being emptied
AdvanceTail_NoClear(b, tail) ==
  [board |-> b,
   tail  |-> get_next_cell(tail, IntAnd(get_cell(b, tail.row, tail.column), 3)).cell]

\* move_snake's branch taken when the new head cell holds no food
AdvanceTail(b, tail) ==
  LET tail_dir == TailDirection(b, tail)
  IN  [board |-> set_cell(b, tail.row, tail.column, CELL_EMPTY),
       tail  |-> get_next_cell(tail, tail_dir).cell]

\* set_cell(row, column, ...) stays inside the array: either its check of the
\* upper bounds turns it into a no-op, or the pack it writes exists
SetCellDefined(row, column) ==
  ~(row < BOARD_HEIGHT /\ column < BOARD_WIDTH) \/ InStorage(Cell(row, column))

\* game_loop's inner loop with a return that ignores the status (mutant)
AfterMove_IgnoresStatus(st) ==
  "wait"

\* where game_loop goes after move_snake has returned st: the inner loop
\* waits for the next event while status == GAME_CONT, else the outer loop
\* starts a round
AfterMove(st) ==
  IF st = GAME_CONT THEN "wait" ELSE "round"

(* ------------------------------------------------------------------ *)
(* State                                                               *)
(* ------------------------------------------------------------------ *)

VARIABLES
  board,         \* static cell_pack_t board[BOARD_HEIGHT][PACKS_PER_ROW]
  snake_head,    \* static cell_t snake_head
  snake_tail,    \* static cell_t snake_tail
  food_loc,      \* static cell_t food_loc
  status,        \* game_loop's status
  direction,     \* the direction of the move_snake call in progress or last returned
  pc,            \* where game_loop is: "round", "gen_food_round", "wait",
                 \* "gen_food_move", "quit", "undefined"; in the storage
                 \* harness "storage" before its set_cell call, "stored" after
  old_head_loc,  \* game_loop's copy of snake_head taken before move_snake
  old_tail_loc,  \* game_loop's copy of snake_tail taken before move_snake
  old_board,     \* the board as it was when move_snake (or, in the storage
                 \* harness, set_cell) was called
  old_status,    \* game_loop's status as it was when the last init_board or
                 \* move_snake was called
  stored         \* the arguments of the last set_cell call of the storage harness

vars == <<board, snake_head, snake_tail, food_loc, status, direction, pc,
          old_head_loc, old_tail_loc, old_board, old_status, stored>>

Init ==
  /\ board = ZeroBoard
  /\ snake_head = Cell(0, 0)
  /\ snake_tail = Cell(0, 0)
  /\ food_loc = Cell(0, 0)
  /\ status = GAME_CONT
  /\ direction = NO_DIRECTION
  /\ pc = "round"
  /\ old_head_loc = Cell(0, 0)
  /\ old_tail_loc = Cell(0, 0)
  /\ old_board = ZeroBoard
  /\ old_status = GAME_CONT
  /\ stored = [row |-> 0, column |-> 0, state |-> CELL_EMPTY]

(* ------------------------------------------------------------------ *)
(* Actions                                                             *)
(* ------------------------------------------------------------------ *)

\* game_loop, top of the outer loop: status = GAME_CONT, init_board(), and
\* the call of gen_food().
NewRound ==
  /\ pc = "round"
  /\ old_status' = status
  /\ status' = GAME_CONT
  /\ LET cleared == init_board(board)
     IN  board' = cleared /\ old_board' = cleared
  /\ snake_head' = StartCell
  /\ snake_tail' = StartCell
  /\ direction' = NO_DIRECTION
  /\ old_head_loc' = StartCell
  /\ old_tail_loc' = StartCell
  /\ pc' = "gen_food_round"
  /\ UNCHANGED <<food_loc, stored>>

\* One iteration of gen_food's do-while: food_loc is assigned the sample;
\* the loop goes on while the sampled cell is not empty.  When it ends the
\* food is set and the caller goes on: game_loop waits for events,
\* move_snake marks the new head cell and returns GAME_CONT.
\* Sample(r, c) is the iteration in which rand() % BOARD_HEIGHT is r and
\* rand() % BOARD_WIDTH is c.
Sample(r, c) ==
  /\ pc \in {"gen_food_round", "gen_food_move"}
  /\ food_loc' = Cell(r, c)
  /\ IF ~FoodCellFree(board, Cell(r, c))
     THEN UNCHANGED <<board, status, pc>>
     ELSE LET fed == set_cell(board, r, c, CELL_HAS_FOOD)
          IN  IF pc = "gen_food_round"
              THEN /\ board' = fed
                   /\ pc' = "wait"
                   /\ UNCHANGED status
              ELSE /\ board' = set_cell(fed, snake_head.row, snake_head.column,
                                        HeadState(direction))
                   /\ status' = GAME_CONT
                   /\ pc' = AfterMove(GAME_CONT)
  /\ UNCHANGED <<snake_head, snake_tail, direction, old_head_loc, old_tail_loc,
                 old_board, old_status, stored>>

GenFoodSample == \E r \in Rows, c \in Columns : Sample(r, c)

\* move_snake(d), called by game_loop's key handler, up to its return or to
\* its call of gen_food.  get_cell and set_cell do not check the indices
\* they are given against the array (set_cell checks the upper bounds only):
\* a tail outside the storage makes the behaviour of the program undefined,
\* pc = "undefined", and the model follows it no further.  So does a head
\* that passes set_cell's check of the upper bounds and is outside the storage.
MoveSnake(d) ==
  /\ pc = "wait"
  /\ direction' = d
  /\ old_head_loc' = snake_head
  /\ old_tail_loc' = snake_tail
  /\ old_board' = board
  /\ old_status' = status
  /\ UNCHANGED stored
  /\ IF ~SetCellDefined(snake_head.row, snake_head.column)
     THEN /\ pc' = "undefined"
          /\ UNCHANGED <<board, snake_head, snake_tail, food_loc, status>>
     ELSE
     LET marked == set_cell(board, snake_head.row, snake_head.column, HeadState(d))
         next == get_next_cell(snake_head, d)
     IN  IF ~next.valid
         THEN /\ board' = marked
              /\ status' = GAME_CONT
              /\ pc' = AfterMove(GAME_CONT)
              /\ UNCHANGED <<snake_head, snake_tail, food_loc>>
         ELSE /\ snake_head' = next.cell
              /\ IF HitsBorderOrSnake(marked, next.cell, snake_tail)
                 THEN /\ board' = marked
                      /\ status' = GAME_LOSE
                      /\ pc' = AfterMove(GAME_LOSE)
                      /\ UNCHANGED <<snake_tail, food_loc>>
                 ELSE IF ~HoldsFood(marked, next.cell)
                      THEN IF ~InStorage(snake_tail)
                           THEN /\ board' = marked
                                /\ pc' = "undefined"
                                /\ UNCHANGED <<snake_tail, food_loc, status>>
                           ELSE LET adv == AdvanceTail(marked, snake_tail)
                                IN  /\ snake_tail' = adv.tail
                                    /\ board' = set_cell(adv.board, next.cell.row,
                                                         next.cell.column, HeadState(d))
                                    /\ status' = GAME_CONT
                                    /\ pc' = AfterMove(GAME_CONT)
                                    /\ UNCHANGED food_loc
                      ELSE /\ board' = marked
                           /\ pc' = "gen_food_move"
                           /\ UNCHANGED <<snake_tail, food_loc, status>>

\* An arrow key: game_loop maps it to one of the four directions.
KeyDown == \E d \in Directions : MoveSnake(d)

\* SDL_QUIT
Quit ==
  /\ pc = "wait"
  /\ pc' = "quit"
  /\ UNCHANGED <<board, snake_head, snake_tail, food_loc, status, direction,
                 old_head_loc, old_tail_loc, old_board, old_status, stored>>

\* SDL_WaitEvent returns 0: the inner loop ends and the outer loop starts a round.
WaitEventFails ==
  /\ pc = "wait"
  /\ pc' = "round"
  /\ UNCHANGED <<board, snake_head, snake_tail, food_loc, status, direction,
                 old_head_loc, old_tail_loc, old_board, old_status, stored>>

Next == NewRound \/ GenFoodSample \/ KeyDown \/ Quit \/ WaitEventFails

Spec == Init /\ [][Next]_vars

\* move_snake called with any int in 0 .. MaxDirection, as its signature allows
AnyDirection == \E d \in 0 .. MaxDirection : MoveSnake(d)

NextAnyDir == NewRound \/ GenFoodSample \/ AnyDirection \/ Quit \/ WaitEventFails

SpecAnyDir == Init /\ [][NextAnyDir]_vars

\* an iteration of gen_food that samples a cell holding CELL_EMPTY
SampleEmpty ==
  \E r \in Rows, c \in Columns :
    get_cell(board, r, c) = CELL_EMPTY /\ Sample(r, c)

\* rand() is fair: gen_food does not sample for ever without sampling one of
\* the empty cells.  (Every cell being sampled in the end implies it.)
FairSampling == WF_vars(SampleEmpty)

\* the game played on: no SDL_QUIT, SDL_WaitEvent never fails
NextPlay == NewRound \/ GenFoodSample \/ KeyDown

SpecFair == Init /\ [][NextPlay]_vars /\ FairSampling

\* enum cell_states: the six values a cell holds
CellStates ==
  {CELL_EMPTY, CELL_HAS_FOOD} \cup {IntOr(OCC_FLAG, d) : d \in Directions}

\* the boards with at most n cells that are not CELL_EMPTY
RECURSIVE BoardsWith(_)
BoardsWith(n) ==
  IF n = 0 THEN {ZeroBoard}
  ELSE LET fewer == BoardsWith(n - 1)
       IN  fewer \cup {set_cell(b, c.row, c.column, state) :
                         b \in fewer, c \in Cells, state \in CellStates}

\* The storage on its own, outside the game: board[][] holds any of the
\* boards above and set_cell is about to be called on it.
InitStorage ==
  /\ board \in BoardsWith(MaxStored)
  /\ old_board = board
  /\ pc = "storage"
  /\ snake_head = Cell(0, 0)
  /\ snake_tail = Cell(0, 0)
  /\ food_loc = Cell(0, 0)
  /\ status = GAME_CONT
  /\ direction = NO_DIRECTION
  /\ old_head_loc = Cell(0, 0)
  /\ old_tail_loc = Cell(0, 0)
  /\ old_status = GAME_CONT
  /\ stored = [row |-> 0, column |-> 0, state |-> CELL_EMPTY]

\* The call set_cell(row, column, state).
StoreCell(row, column, state) ==
  /\ pc = "storage"
  /\ pc' = "stored"
  /\ board' = set_cell(board, row, column, state)
  /\ old_board' = board
  /\ stored' = [row |-> row, column |-> column, state |-> state]
  /\ UNCHANGED <<snake_head, snake_tail, food_loc, status, direction,
                 old_head_loc, old_tail_loc, old_status>>

\* set_cell with every cell state, on every cell and with indices past the
\* last row and the last column
Storage ==
  \E row \in 0 .. BOARD_HEIGHT + MaxOutside - 1,
     column \in 0 .. BOARD_WIDTH + MaxOutside - 1,
     state \in CellStates : StoreCell(row, column, state)

SpecStorage == InitStorage /\ [][Storage]_vars

(* ------------------------------------------------------------------ *)
(* The vocabulary of the specification: cell states, the snake as the  *)
(* chain of stored directions from tail to head                        *)
(* ------------------------------------------------------------------ *)

\* Occupied(direction), for the four directions
OccupiedStates == {OCC_FLAG + d : d \in Directions}

CellAt(b, cell) == get_cell(b, cell.row, cell.column)

\* apply(position, direction) of the four directions
Offset(d) ==
  CASE d = SNAKE_LEFT  -> Cell(0, -1)
    [] d = SNAKE_RIGHT -> Cell(0, 1)
    [] d = SNAKE_UP    -> Cell(-1, 0)
    [] d = SNAKE_DOWN  -> Cell(1, 0)

Apply(cell, d) == Cell(cell.row + Offset(d).row, cell.column + Offset(d).column)

\* The cells met when following the stored directions from `cell` to `head`,
\* `cell` first; << >> when the walk leaves the board, meets a cell that is
\* not Occupied, or needs more than `fuel` steps.
RECURSIVE ChainFrom(_, _, _, _)
ChainFrom(b, cell, head, fuel) ==
  IF cell = head THEN <<cell>>
  ELSE IF fuel = 0 \/ cell \notin Cells \/ CellAt(b, cell) \notin OccupiedStates THEN << >>
  ELSE LET rest == ChainFrom(b, Apply(cell, CellAt(b, cell) - OCC_FLAG), head, fuel - 1)
       IN  IF rest = << >> THEN << >> ELSE <<cell>> \o rest

Chain(b, tail, head) == ChainFrom(b, tail, head, BOARD_HEIGHT * BOARD_WIDTH)

\* the length of the snake, 0 when tail and head are not linked
SnakeLength(b, tail, head) == Len(Chain(b, tail, head))

SnakeCells(b, tail, head) ==
  LET ch == Chain(b, tail, head) IN {ch[i] : i \in 1 .. Len(ch)}

FoodCells(b) == {c \in Cells : CellAt(b, c) = CELL_HAS_FOOD}

\* game_loop has finished init_board() and gen_food() and no move was made yet
RoundStarted == pc = "wait" /\ direction = NO_DIRECTION

\* the last engine operation was a move_snake(direction) that returned GAME_CONT
ReturnedContinue == pc = "wait" /\ direction # NO_DIRECTION

\* the last engine operation was a move_snake(direction) that returned GAME_LOSE
ReturnedLose == pc = "round" /\ status = GAME_LOSE

\* newHead of the move_snake call whose state before the call old_* hold
NewHead == Apply(old_head_loc, direction)

OldLength == SnakeLength(old_board, old_tail_loc, old_head_loc)

\* the lose condition as the specification states it, on the state before the call
LoseCondition ==
  \/ NewHead.row < 0 \/ NewHead.row >= BOARD_HEIGHT
  \/ NewHead.column < 0 \/ NewHead.column >= BOARD_WIDTH
  \/ (NewHead # old_tail_loc /\ CellAt(old_board, NewHead) \in OccupiedStates)

\* the head of the call lands on the food cell
LandsOnFood == NewHead \in Cells /\ CellAt(old_board, NewHead) = CELL_HAS_FOOD

(* ------------------------------------------------------------------ *)
(* Claims                                                              *)
(* ------------------------------------------------------------------ *)

\* C1: after init_board() and gen_food(), head = tail = (Height/2, Width/2),
\* exactly one cell holds food, and the food cell is not the head/tail cell.
\* The code breaks it: init_board leaves the start cell CELL_EMPTY, so
\* gen_food may sample it.
C1_InitialState ==
  RoundStarted =>
    /\ snake_head = StartCell
    /\ snake_tail = StartCell
    /\ Cardinality(FoodCells(board)) = 1
    /\ food_loc \in FoodCells(board)
    /\ food_loc # snake_head

\* C2: for a valid direction, move_snake returns GAME_LOSE exactly when
\* newHead is outside the board or (newHead # tail and the cell at newHead
\* is Occupied); whenever it returns otherwise, it returns GAME_CONT.
C2_LoseIff ==
  direction \in Directions =>
    /\ status \in {GAME_CONT, GAME_LOSE}
    /\ (status = GAME_LOSE) <=> LoseCondition
    /\ ReturnedLose => LoseCondition
    /\ ReturnedContinue => (~LoseCondition /\ status = GAME_CONT)

\* a self-collision loss: the head ran into an Occupied cell of the board
C2_Witness ==
  /\ ReturnedLose
  /\ snake_head \in Cells
  /\ snake_head # old_tail_loc
  /\ CellAt(old_board, snake_head) \in OccupiedStates

\* C3: when a valid move lands the head on the food cell and returns, it
\* returns GAME_CONT, the tail has not moved, the head is one step further
\* in the direction, and the snake is exactly one cell longer.
C3_Growth ==
  (ReturnedContinue /\ direction \in Directions /\ LandsOnFood) =>
    /\ status = GAME_CONT
    /\ snake_tail = old_tail_loc
    /\ snake_head = Apply(old_head_loc, direction)
    /\ OldLength >= 1
    /\ SnakeLength(board, snake_tail, snake_head) = OldLength + 1

\* an eating move of a snake of at least two cells has returned
C3_Witness ==
  /\ ReturnedContinue
  /\ direction \in Directions
  /\ LandsOnFood
  /\ OldLength >= 2
  /\ SnakeLength(board, snake_tail, snake_head) = OldLength + 1

\* the direction the old tail cell holds when move_snake reads it: the cell
\* of a snake of one cell is the head cell, marked with the direction of the move
StoredTailDirection ==
  IF old_tail_loc = old_head_loc THEN direction
  ELSE CellAt(old_board, old_tail_loc) - OCC_FLAG

\* C4: when a valid move returns GAME_CONT and the new head cell held no
\* food, the old tail cell is Empty unless it is the new head cell, the tail
\* is one step further along the direction the old tail cell stored when the
\* tail was moved (the direction of the move itself for a snake of one cell,
\* whose tail cell is the head cell the move has just marked), and the length
\* is unchanged; a snake of one cell has head = tail again.
C4_NonGrowth ==
  (ReturnedContinue /\ direction \in Directions /\ ~LandsOnFood) =>
    /\ old_tail_loc # snake_head => CellAt(board, old_tail_loc) = CELL_EMPTY
    /\ StoredTailDirection \in Directions
    /\ snake_tail = Apply(old_tail_loc, StoredTailDirection)
    /\ snake_head = Apply(old_head_loc, direction)
    /\ OldLength >= 1
    /\ SnakeLength(board, snake_tail, snake_head) = OldLength
    /\ OldLength = 1 => snake_head = snake_tail

\* a snake of at least three cells has moved without eating
C4_Witness ==
  /\ ReturnedContinue
  /\ direction \in Directions
  /\ ~LandsOnFood
  /\ OldLength >= 3
  /\ snake_tail # old_tail_loc
  /\ CellAt(board, old_tail_loc) = CELL_EMPTY

\* C5: when the snake has at least two cells and newHead is the tail cell,
\* move_snake returns GAME_CONT, the head is on the old tail cell, which is
\* Occupied(direction), the tail is one step further, and tail and head are
\* still linked by a chain of the same length.
C5_TailExemption ==
  (direction \in Directions /\ OldLength >= 2 /\ NewHead = old_tail_loc) =>
    /\ status = GAME_CONT
    /\ pc # "gen_food_move"
    /\ snake_head = old_tail_loc
    /\ CellAt(board, snake_head) = OCC_FLAG + direction
    /\ snake_tail = Apply(old_tail_loc, CellAt(old_board, old_tail_loc) - OCC_FLAG)
    /\ SnakeLength(board, snake_tail, snake_head) = OldLength

\* the head of a snake of four cells has moved onto its tail cell (a closed loop)
C5_Witness ==
  /\ ReturnedContinue
  /\ direction \in Directions
  /\ OldLength >= 4
  /\ NewHead = old_tail_loc
  /\ snake_head = old_tail_loc

\* C6: the cell gen_food ends on was Empty immediately before the food was
\* set; after an eating move the new food is on no cell of the snake (body,
\* tail or new head).
C6_FoodOnEmptyCell ==
  [][(pc \in {"gen_food_round", "gen_food_move"} /\ pc' = "wait") =>
       /\ CellAt(board, food_loc') = CELL_EMPTY
       /\ CellAt(board', food_loc') = CELL_HAS_FOOD
       /\ pc = "gen_food_move" =>
            /\ food_loc' # snake_head'
            /\ food_loc' \notin SnakeCells(board', snake_tail', snake_head')]_vars

\* an eating move has returned and the new food is on the board
C6_Witness ==
  /\ ReturnedContinue
  /\ direction \in Directions
  /\ LandsOnFood
  /\ CellAt(board, food_loc) = CELL_HAS_FOOD
  /\ food_loc # snake_head

\* C7: whenever the engine waits for the next move, every cell of the snake
\* (head, body, tail) is Occupied and every other cell is Empty or HasFood.
\* The code breaks it at the start of every round: init_board leaves the
\* start cell CELL_EMPTY.
C7_SnakeCellsOccupied ==
  pc = "wait" =>
    \A c \in Cells :
      IF c \in SnakeCells(board, snake_tail, snake_head)
      THEN CellAt(board, c) \in OccupiedStates
      ELSE CellAt(board, c) \in {CELL_EMPTY, CELL_HAS_FOOD}

\* C8: at most one cell of the board holds food.
C8_AtMostOneFood == Cardinality(FoodCells(board)) <= 1

\* the snake, three cells long or more, has eaten and the board holds the
\* one food set after it
C8_Witness ==
  /\ ReturnedContinue
  /\ LandsOnFood
  /\ Cardinality(FoodCells(board)) = 1
  /\ SnakeLength(board, snake_tail, snake_head) >= 3

\* C9: when move_snake returns GAME_LOSE, the tail, the food position and
\* every cell but the head cell of before the call are as before the call,
\* and that head cell is Occupied(direction).
C9_LoseFrame ==
  [][(status = GAME_CONT /\ status' = GAME_LOSE) =>
       /\ snake_tail' = snake_tail
       /\ food_loc' = food_loc
       /\ \A c \in Cells \ {snake_head} : CellAt(board', c) = CellAt(board, c)
       /\ CellAt(board', snake_head) = OCC_FLAG + direction']_vars

\* a move of a snake of at least two cells has lost on the border
C9_Witness ==
  /\ ReturnedLose
  /\ snake_head \notin Cells
  /\ OldLength >= 2
  /\ CellAt(board, old_head_loc) = OCC_FLAG + direction

\* C10: move_snake called with a value that is none of the four directions
\* returns GAME_CONT and changes neither head, tail, food nor any cell.
\* The code breaks it: it writes OCC_FLAG | direction into the head cell
\* before get_next_cell rejects the direction.
C10_InvalidDirectionNoOp ==
  [][(pc = "wait" /\ pc' = "wait" /\ direction' \notin Directions) =>
       /\ status' = GAME_CONT
       /\ snake_head' = snake_head
       /\ snake_tail' = snake_tail
       /\ food_loc' = food_loc
       /\ \A c \in Cells : CellAt(board', c) = CellAt(board, c)]_vars

\* C11: a round that starts after a lost round starts clean: after
\* init_board() and gen_food(), head = tail = (BOARD_HEIGHT/2, BOARD_WIDTH/2),
\* the cell at the new food position holds food and every other cell is
\* CELL_EMPTY; no Occupied cell and no food of the lost round is left.
C11_RoundRestart ==
  (RoundStarted /\ old_status = GAME_LOSE) =>
    /\ snake_head = StartCell
    /\ snake_tail = StartCell
    /\ CellAt(board, food_loc) = CELL_HAS_FOOD
    /\ \A c \in Cells \ {food_loc} : CellAt(board, c) = CELL_EMPTY

\* a round started after a lost round, its food on another cell than the snake
C11_Witness ==
  /\ RoundStarted
  /\ old_status = GAME_LOSE
  /\ FoodCells(board) = {food_loc}
  /\ food_loc # snake_head

\* the last set_cell call of the storage harness had indices inside the board
StoredInRange ==
  pc = "stored" /\ stored.row < BOARD_HEIGHT /\ stored.column < BOARD_WIDTH

\* the last set_cell call of the storage harness had an index past the board
StoredOutOfRange ==
  pc = "stored" /\ (stored.row >= BOARD_HEIGHT \/ stored.column >= BOARD_WIDTH)

\* C12: after set_cell(row, column, s) with (row, column) inside the board
\* and s any of the six cell states, get_cell(row, column) is s and get_cell
\* of every other cell, those of the same pack and those of the same
\* column in other rows included, is what it was before the call.
C12_StorageRoundTrip ==
  StoredInRange =>
    /\ get_cell(board, stored.row, stored.column) = stored.state
    /\ \A c \in Cells \ {Cell(stored.row, stored.column)} :
         get_cell(board, c.row, c.column) = get_cell(old_board, c.row, c.column)

\* a cell has been overwritten with another state while a cell of the same
\* pack held a state that is not CELL_EMPTY
C12_Witness ==
  /\ StoredInRange
  /\ get_cell(board, stored.row, stored.column) = stored.state
  /\ get_cell(old_board, stored.row, stored.column) # stored.state
  /\ \E c \in Cells :
       /\ c.row = stored.row
       /\ c.column # stored.column
       /\ get_cell(old_board, c.row, c.column) # CELL_EMPTY
       /\ get_cell(board, c.row, c.column) = get_cell(old_board, c.row, c.column)

\* C13: set_cell(row, column, state) with row >= BOARD_HEIGHT or
\* column >= BOARD_WIDTH changes nothing: the board, the unused bits of its
\* packs included, is what it was before the call.
C13_OutOfRangeNoOp ==
  StoredOutOfRange => board = old_board

\* a state that is not CELL_EMPTY has been stored past the last column of
\* a row of the board, on a board that is not empty
C13_Witness ==
  /\ StoredOutOfRange
  /\ stored.row < BOARD_HEIGHT
  /\ stored.column >= BOARD_WIDTH
  /\ stored.state # CELL_EMPTY
  /\ board = old_board
  /\ \E c \in Cells : get_cell(board, c.row, c.column) # CELL_EMPTY

\* gen_food is running: game_loop's call or move_snake's
InGenFood == pc \in {"gen_food_round", "gen_food_move"}

\* the cells of the board that are CELL_EMPTY
EmptyCells(b) == {c \in Cells : CellAt(b, c) = CELL_EMPTY}

\* C14: under fair sampling, gen_food called on a board with an empty cell
\* returns: it is never for ever running on such a board, and each of its
\* iterations either leaves the board as it is and goes on or ends the
\* call.  When it returns, the cell it sampled last was CELL_EMPTY, now
\* holds food and is food_loc, and no other cell has changed (but the head
\* cell, which move_snake sets once gen_food has returned).
C14_GenFoodTerminates ==
  /\ []<>~(InGenFood /\ EmptyCells(board) # {})
  /\ [][InGenFood =>
          \/ (pc' = pc /\ board' = board)
          \/ /\ pc' = "wait"
             /\ food_loc' \in EmptyCells(board)
             /\ CellAt(board', food_loc') = CELL_HAS_FOOD
             /\ \A c \in Cells \ {food_loc'} :
                  \/ CellAt(board', c) = CellAt(board, c)
                  \/ (pc = "gen_food_move" /\ c = snake_head)]_vars

\* gen_food, called by a move of a snake of three cells or more, has
\* returned: the food is on a cell that was empty
C14_Witness ==
  /\ ReturnedContinue
  /\ LandsOnFood
  /\ OldLength >= 3
  /\ CellAt(old_board, food_loc) = CELL_EMPTY
  /\ CellAt(board, food_loc) = CELL_HAS_FOOD

\* C15: when move_snake returns GAME_LOSE, the head is the (in-board) head
\* of before the call.  The code breaks it: get_next_cell(&snake_head, ...)
\* moves snake_head before the lose condition is tested, and nothing moves
\* it back.
C15_LoseKeepsHead ==
  ReturnedLose =>
    /\ old_head_loc \in Cells
    /\ snake_head = old_head_loc

\* C16: the food never vanishes: whenever game_loop waits for an event,
\* the cell at food_loc holds food.  The code breaks it through C1's bug:
\* food placed on the start cell is overwritten by the first move_snake.
C16_FoodNeverVanishes ==
  pc = "wait" => CellAt(board, food_loc) = CELL_HAS_FOOD

\* C17: whenever game_loop waits for an event, the stored directions lead
\* from the tail to the head in finitely many steps, over cells of the
\* board only and over no cell twice, and every Occupied cell of the board
\* is one of the cells of that walk.
C17_ChainIntegrity ==
  pc = "wait" =>
    LET ch == Chain(board, snake_tail, snake_head)
        visited == {ch[i] : i \in 1 .. Len(ch)}
    IN  /\ ch # << >>
        /\ visited \subseteq Cells
        /\ Cardinality(visited) = Len(ch)
        /\ \A c \in Cells : CellAt(board, c) \in OccupiedStates => c \in visited

\* a snake of three cells or more that is not straight has moved on
\* without eating: its tail has left a cell, now CELL_EMPTY
C17_Witness ==
  /\ ReturnedContinue
  /\ ~LandsOnFood
  /\ SnakeLength(board, snake_tail, snake_head) >= 3
  /\ snake_tail # old_tail_loc
  /\ CellAt(board, old_tail_loc) = CELL_EMPTY
  /\ snake_tail.row # snake_head.row
  /\ snake_tail.column # snake_head.column

\* a step of game_loop in the order of a round: a move_snake call (the only
\* step inside a round that moves the head) is made from the waiting state,
\* with status GAME_CONT; the waiting state is entered from gen_food or from
\* a move_snake that returned GAME_CONT; the gen_food of a round is entered
\* through init_board, which leaves the whole board empty; from the top of
\* the outer loop the one next operation is init_board with that gen_food
InRoundOrder ==
  /\ (pc # "round" /\ snake_head' # snake_head) => (pc = "wait" /\ status = GAME_CONT)
  /\ (pc' = "wait") => (pc \in {"gen_food_round", "gen_food_move", "wait"})
  /\ (pc' = "gen_food_move") => (pc \in {"wait", "gen_food_move"})
  /\ (pc' = "gen_food_round") =>
       (pc \in {"round", "gen_food_round"} /\ EmptyCells(board') = Cells)
  /\ (pc = "gen_food_round") => (pc' \in {"gen_food_round", "wait"})
  /\ (pc = "round") =>
       (pc' = "gen_food_round" /\ status' = GAME_CONT /\ snake_head' = StartCell)

\* C18: game_loop's round protocol.  Every move_snake call comes, in its
\* round, after init_board and then gen_food; once move_snake has returned
\* GAME_LOSE the program is at the top of the outer loop, no move_snake is
\* called on that state, and the next operation is init_board followed by
\* the gen_food of a new round.
C18_RoundProtocol ==
  /\ [](status = GAME_LOSE => pc = "round")
  /\ [][InRoundOrder]_vars

\* move_snake has returned GAME_LOSE and the next operation was init_board:
\* the board is empty and the gen_food of the new round is running
C18_Witness ==
  /\ pc = "gen_food_round"
  /\ old_status = GAME_LOSE
  /\ status = GAME_CONT
  /\ EmptyCells(board) = Cells

\* C19: every board access of a game played with the arrow keys is inside
\* the board.  move_snake indexes the board with the head and the tail it
\* is called with, and with the new head once the lose condition has
\* found it inside the board; gen_food indexes it with its sample and,
\* back in move_snake, with the head: so the head, the tail and the food
\* position are cells of the board whenever a move can be called or
\* gen_food runs for a move, and the program never gets to an access
\* outside the array.
C19_AccessesInRange ==
  /\ pc # "undefined"
  /\ pc \in {"wait", "gen_food_move"} =>
       /\ snake_head \in Cells
       /\ snake_tail \in Cells
       /\ food_loc \in Cells

\* a snake of three cells or more waits for the next key with its head in
\* a corner of the board and its tail on the opposite border
C19_Witness ==
  /\ ReturnedContinue
  /\ snake_head = Cell(0, 0)
  /\ snake_tail.column = BOARD_WIDTH - 1
  /\ SnakeLength(board, snake_tail, snake_head) >= 3

\* C20: gen_food called on a board with no empty cell never returns: every
\* step from a state in which gen_food runs on a full board ends in such a
\* state.  A move_snake that eats the food when snake and food cover the
\* board stays in its gen_food call and returns no status.
C20_FullBoardNeverReturns ==
  [][(InGenFood /\ EmptyCells(board) = {}) =>
       /\ pc' = pc
       /\ EmptyCells(board') = {}
       /\ UNCHANGED <<board, snake_head, snake_tail, status>>]_vars

\* the snake has eaten on a board it covers but for the food cell: the
\* gen_food of that move runs on a board with no empty cell
C20_Witness ==
  /\ pc = "gen_food_move"
  /\ EmptyCells(board) = {}
  /\ OldLength = BOARD_HEIGHT * BOARD_WIDTH - 1
  /\ food_loc # snake_head

====
